---------------------------- MODULE Spec2Model ----------------------------
(***************************************************************************)
(* A model of vmexporter (src/vmexporter.py): the query translator         *)
(* make_url, the record conversion loop of handle_export, and the export   *)
(* handler as a set of cooperatively scheduled requests that share the     *)
(* process-wide per-target instruments.                                    *)
(***************************************************************************)
EXTENDS Integers, Sequences, FiniteSets, TLC

(***************************************************************************)
(* Bounds of the model.                                                    *)
(***************************************************************************)
\* Largest reading of the wall clock.
MaxNow == 1
\* Largest number of tokens (record texts and line breaks) of an upstream body.
MaxTokens == 3
\* Number of export requests the server receives.
NumReqs == 2

\* Python's None (an absent string).
None == "<None>"

Min(a, b) == IF a < b THEN a ELSE b

(***************************************************************************)
(* Query translator: make_url.                                             *)
(***************************************************************************)
\* The query parameters make_url and handle_export read.
Params == {"target", "start", "end", "last", "match[]"}

\* The values a caller may give each parameter (an empty value is `?start=`).
ParamValues(k) ==
    CASE k = "target" -> {"http://vmA"}
      [] k = "start" -> {"", "100"}
      [] k = "end" -> {"", "200"}
      [] k = "last" -> {"", "abc", "60", "0"}
      [] k = "match[]" -> {"", "up"}

AllParamValues == UNION {ParamValues(k) : k \in Params}

\* Every query mapping over Params: a function from the parameters present
\* to their values.
Queries ==
    UNION {{q \in [D -> AllParamValues] : \A k \in D : q[k] \in ParamValues(k)} :
             D \in SUBSET Params}

\* `key in query`
Has(query, k) == k \in DOMAIN query

\* query.get(key): the value, or None
Get(query, k) == IF Has(query, k) THEN query[k] ELSE None

\* The strings of the model that float() accepts, with their values; float()
\* raises ValueError on every other string.
FloatTable == ("60" :> 60) @@ ("0" :> 0)

FloatOk(s) == s \in DOMAIN FloatTable

\* str(object=x) of a number.
Str(x) == ToString(x)

\* Truth value of an optional string: None and "" are false.
Truthy(s) == s # None /\ s # ""

DefaultMatch == "{__name__!=''}"

\* The exception float() raises out of make_url.
ValueErrorOf(s) ==
    [exc |-> "ValueError", url |-> None,
     msg |-> "could not convert string to float: '" \o s \o "'"]

\* A model of a translator that lets a supplied start win over last.
ResolveStart_startFirst(q, t) ==
    IF Has(q, "start")
    THEN q["start"]
    ELSE IF Has(q, "last") THEN Str(t - FloatTable[q["last"]]) ELSE None

\* Lines 97-101: the start of the time window; `last` takes precedence.
ResolveStart(query, now) ==
    IF Has(query, "last")
    THEN Str(now - FloatTable[query["last"]])
    ELSE Get(query, "start")

\* Lines 105-106.
WithStart(url, start) ==
    IF Truthy(start) THEN url \o "start=" \o start \o "&" ELSE url

\* Lines 108-109.
WithEnd(url, end) ==
    IF Truthy(end) THEN url \o "end=" \o end \o "&" ELSE url

\* Lines 111-115.
WithMatch(url, query) ==
    IF Has(query, "match[]")
    THEN url \o "match[]=" \o query["match[]"]
    ELSE url \o "match[]=" \o DefaultMatch

\* Whether float(query["last"]) raises on line 98.
LastRaises(query) == Has(query, "last") /\ ~FloatOk(query["last"])

\* make_url(query), with the reading `now` of time(): the url, or the
\* exception raised.
make_url(query, now) ==
    IF LastRaises(query)
    THEN ValueErrorOf(query["last"])
    ELSE [exc |-> "none",
          url |-> WithMatch(WithEnd(WithStart("/api/v1/export?",
                                              ResolveStart(query, now)),
                                    Get(query, "end")),
                            query),
          msg |-> ""]

(***************************************************************************)
(* Upstream bodies.  A body is a text: a sequence of tokens, each a line   *)
(* break or the text of one piece of content (a JSON object, or text that  *)
(* is not JSON).                                                           *)
(***************************************************************************)
Fields == {"metric", "values", "timestamps"}

\* A JSON number and the JSON null, as entries of `values`.
Num(n) == [isnull |-> FALSE, n |-> n]
Null == [isnull |-> TRUE, n |-> 0]

\* The text of a JSON object with the fields `has`; `metric` is the object's
\* entries in order, as <<key, value>> pairs.
Obj(has, metric, values, timestamps) ==
    [t |-> "obj", has |-> has, metric |-> metric, values |-> values,
     timestamps |-> timestamps]

\* Text that is not JSON.
Junk == [t |-> "junk", has |-> {}, metric |-> <<>>, values |-> <<>>, timestamps |-> <<>>]

\* A line break.
NL == [t |-> "nl", has |-> {}, metric |-> <<>>, values |-> <<>>, timestamps |-> <<>>]

\* {"metric":{"__name__":"up","job":"x"},"values":[1,null],"timestamps":[100,200]}
R_up == Obj(Fields, << <<"__name__", "up">>, <<"job", "x">> >>,
            <<Num(1), Null>>, <<100, 200>>)
\* __name__ between two labels, more timestamps than values
R_mid == Obj(Fields, << <<"job", "x">>, <<"__name__", "up">>, <<"env", "p">> >>,
             <<Num(2)>>, <<100, 200>>)
\* no labels, more values than timestamps
R_cpu == Obj(Fields, << <<"__name__", "cpu">> >>, <<Null, Num(2)>>, <<300>>)
\* no samples
R_none == Obj(Fields, << <<"__name__", "up">> >>, <<>>, <<>>)
\* records missing an expected field
R_noname == Obj(Fields, << <<"job", "x">> >>, <<Num(1)>>, <<100>>)
R_nometric == Obj({"values", "timestamps"}, <<>>, <<Num(1)>>, <<100>>)
R_novalues == Obj({"metric", "timestamps"}, << <<"__name__", "up">> >>, <<>>, <<100>>)
R_notimestamps == Obj({"metric", "values"}, << <<"__name__", "up">> >>, <<Num(1)>>, <<>>)

WellFormedRecords == {R_up, R_mid, R_cpu, R_none}
DeficientRecords == {R_noname, R_nometric, R_novalues, R_notimestamps}
Tokens == WellFormedRecords \cup DeficientRecords \cup {Junk, NL}

\* Every upstream body of at most MaxTokens tokens.
Texts == UNION {[1..n -> Tokens] : n \in 0..MaxTokens}

(***************************************************************************)
(* Record conversion: lines 141-155 of handle_export.                      *)
(***************************************************************************)
RECURSIVE SplitFrom(_, _, _)
\* str.splitlines(): a line ends at each line break; what follows the last
\* line break is a line only if it is not empty.
SplitFrom(text, i, cur) ==
    IF i > Len(text)
    THEN IF cur = <<>> THEN <<>> ELSE <<cur>>
    ELSE IF text[i].t = "nl"
         THEN <<cur>> \o SplitFrom(text, i + 1, <<>>)
         ELSE SplitFrom(text, i + 1, Append(cur, text[i]))

\* A model of str.split("\n"): what follows the last line break is a line
\* even when it is empty.
splitlines_split(text) ==
    IF text = <<>> \/ text[Len(text)].t = "nl"
    THEN SplitFrom(text, 1, <<>>) \o << <<>> >>
    ELSE SplitFrom(text, 1, <<>>)

splitlines(text) == SplitFrom(text, 1, <<>>)

\* json.loads(s=line): the object, or JSONDecodeError.
loads(line) ==
    IF line = <<>> \/ line[1].t # "obj"
    THEN [exc |-> "JSONDecodeError", obj |-> Junk,
          msg |-> "Expecting value: line 1 column 1 (char 0)"]
    ELSE IF Len(line) > 1
         THEN [exc |-> "JSONDecodeError", obj |-> Junk,
               msg |-> "Extra data: line 1 column 2 (char 1)"]
         ELSE [exc |-> "none", obj |-> line[1], msg |-> ""]

\* The first of json_metric["metric"], json_metric["values"],
\* json_metric["timestamps"], metric.pop("__name__") (lines 145-148) to raise
\* KeyError, or "" when none does.
MissingKey(obj) ==
    IF "metric" \notin obj.has THEN "metric"
    ELSE IF "values" \notin obj.has THEN "values"
    ELSE IF "timestamps" \notin obj.has THEN "timestamps"
    ELSE IF \A i \in 1..Len(obj.metric) : obj.metric[i][1] # "__name__" THEN "__name__"
    ELSE ""

\* metric.pop("__name__"): the value popped.
PopName(metric) ==
    metric[CHOOSE i \in 1..Len(metric) : metric[i][1] = "__name__"][2]

\* metric after metric.pop("__name__"): the other entries, in order.
AfterPop(metric) == SelectSeq(metric, LAMBDA e : e[1] # "__name__")

RECURSIVE JoinLabels(_, _)
\* ",".join(f'{k}="{v}"' for k, v in metric.items()), from entry i on.
JoinLabels(metric, i) ==
    IF i > Len(metric) THEN ""
    ELSE metric[i][1] \o "=\"" \o metric[i][2] \o "\""
         \o (IF i < Len(metric) THEN "," ELSE "")
         \o JoinLabels(metric, i + 1)

\* A model of a renderer that writes a null value as Python prints it.
FormatValue_none(value) == IF value.isnull THEN "None" ELSE Str(value.n)

\* {value if value is not None else 0}
FormatValue(value) == IF value.isnull THEN Str(0) ELSE Str(value.n)

\* Line 155: one exposition line.
RenderSample(metric_name, metric, value, timestamp) ==
    metric_name \o "{" \o JoinLabels(metric, 1) \o "} " \o FormatValue(value)
    \o " " \o Str(timestamp) \o "\n"

\* Number of pairs of zip(values, timestamps).
ZipLen(values, timestamps) == Min(Len(values), Len(timestamps))

RECURSIVE RenderZip(_, _, _, _, _)
\* Lines 152-155: the lines of one record, from pair i on.
RenderZip(metric_name, metric, values, timestamps, i) ==
    IF i > ZipLen(values, timestamps) THEN ""
    ELSE RenderSample(metric_name, metric, values[i], timestamps[i])
         \o RenderZip(metric_name, metric, values, timestamps, i + 1)

\* Lines 145-155 for one parsed record.
RenderRecord(obj) ==
    RenderZip(PopName(obj.metric), AfterPop(obj.metric), obj.values, obj.timestamps, 1)

RECURSIVE ConvertFrom(_, _, _)
\* Lines 142-155: the loop over the lines from line i on, `body` being what
\* is rendered so far; it ends with the body, or with the exception raised
\* and the body as the exception found it.
ConvertFrom(lines, i, body) ==
    IF i > Len(lines)
    THEN [exc |-> "none", msg |-> "", body |-> body, nlines |-> Len(lines)]
    ELSE LET parsed == loads(lines[i])
         IN  IF parsed.exc # "none"
             THEN [exc |-> parsed.exc, msg |-> parsed.msg, body |-> body,
                   nlines |-> Len(lines)]
             ELSE IF MissingKey(parsed.obj) # ""
             THEN [exc |-> "KeyError", msg |-> "'" \o MissingKey(parsed.obj) \o "'",
                   body |-> body, nlines |-> Len(lines)]
             ELSE ConvertFrom(lines, i + 1, body \o RenderRecord(parsed.obj))

\* Lines 141-155 on the text response.text() returns.
Convert(text) == ConvertFrom(splitlines(text), 1, "")

(***************************************************************************)
(* The export handler.  Each request is a task of the event loop; it runs  *)
(* from one await to the next without interruption:                        *)
(*   "idle"   not yet received                                             *)
(*   "fetch"  suspended in session.get / response.text() (lines 140-141)   *)
(*   "exit"   leaving the two `async with` blocks, the body converted or   *)
(*            an exception raised (their __aexit__ awaits)                 *)
(*   "done"   the response returned, or the exception left to aiohttp      *)
(***************************************************************************)
VARIABLES
    now,              \* the reading of the wall clock, time()
    pc,               \* pc[r]: where request r is
    query,            \* query[r]: request.query
    export_start,     \* export_start[r]: the local of line 130
    upstream_get,     \* upstream_get[r]: the url of the GET issued, or None
    text,             \* text[r]: the body the upstream answered with
    outcome,          \* outcome[r]: how lines 135-155 ended
    response,         \* response[r]: the response the client gets
    DURATION_METRIC,  \* per target: the gauge
    EXPORT_COUNT,     \* per target: the counters
    EXPORT_FAILS,
    EXPORT_LINES,
    uquery,           \* query translator alone: the query, and what make_url gave
    ures,
    ctext,            \* record conversion alone: the body, and what the loop gave
    cres

hvars == <<pc, query, export_start, upstream_get, text, outcome, response>>
instruments == <<DURATION_METRIC, EXPORT_COUNT, EXPORT_FAILS, EXPORT_LINES>>
pvars == <<uquery, ures, ctext, cres>>
vars == <<now, hvars, instruments, pvars>>

Reqs == 1..NumReqs
Targets == {"http://vmA", "http://vmB"}

\* The queries of the export requests.
Q_notarget == ("start" :> "100")
Q_A == ("target" :> "http://vmA")
Q_B == ("target" :> "http://vmB")
Q_Abadlast == ("target" :> "http://vmA") @@ ("last" :> "abc")
HandlerQueries == {Q_notarget, Q_A, Q_B, Q_Abadlast}
NoQuery == ("<idle>" :> "")

\* The bodies an upstream answers with.
B_two == <<R_up, NL, R_mid, NL>>
B_junk == <<R_up, NL, Junk>>
B_noname == <<R_up, NL, R_noname, NL>>
B_mixed == <<R_novalues, NL, Junk>>
HandlerBodies == {B_two, B_junk, B_noname, B_mixed}

NoOutcome == [exc |-> "pending", msg |-> "", body |-> "", nlines |-> 0]
NoResponse == [status |-> 0, body |-> ""]
NoUrl == [exc |-> "pending", url |-> None, msg |-> ""]
Unset == [set |-> FALSE, v |-> 0]

\* A model of a counter whose increment starts from the value it had when
\* the process started, losing the increments made since.
Inc_lost(counter, target, amount) == [counter EXCEPT ![target] = 0 + amount]

\* Counter.labels(target).inc(amount)
Inc(counter, target, amount) == [counter EXCEPT ![target] = @ + amount]

\* Gauge.labels(target).set(value)
SetGauge(gauge, target, value) == [gauge EXCEPT ![target] = [set |-> TRUE, v |-> value]]

\* Lines 124-128.
MissingTargetResponse == [status |-> 400, body |-> "Missing 'target' query field"]

\* What aiohttp answers when the handler raises.
UnhandledResponse == [status |-> 500, body |-> "500 Internal Server Error"]

\* Line 157: the exceptions the handler catches (JSONDecodeError and
\* UnicodeDecodeError are ValueErrors; KeyError is a LookupError).
Caught(exc) == exc \in {"ClientError", "JSONDecodeError", "ValueError"}

\* A model of an except clause that answers with what was rendered so far.
FailureResponse_partial(o) == [status |-> 400, body |-> o.body \o o.msg]

\* Lines 159-163.
FailureResponse(o) == [status |-> 400, body |-> o.msg]

\* Line 170.
SuccessResponse(o) == [status |-> 200, body |-> o.body]

\* session.get raising ClientError on line 140.
ClientErrorOutcome ==
    [exc |-> "ClientError", msg |-> "Cannot connect to host", body |-> "", nlines |-> 0]

HandlerInit ==
    /\ pc = [r \in Reqs |-> "idle"]
    /\ query = [r \in Reqs |-> NoQuery]
    /\ export_start = [r \in Reqs |-> 0]
    /\ upstream_get = [r \in Reqs |-> None]
    /\ text = [r \in Reqs |-> <<>>]
    /\ outcome = [r \in Reqs |-> NoOutcome]
    /\ response = [r \in Reqs |-> NoResponse]
    /\ DURATION_METRIC = [t \in Targets |-> Unset]
    /\ EXPORT_COUNT = [t \in Targets |-> 0]
    /\ EXPORT_FAILS = [t \in Targets |-> 0]
    /\ EXPORT_LINES = [t \in Targets |-> 0]

PureIdle ==
    /\ uquery = NoQuery
    /\ ures = NoUrl
    /\ ctext = <<>>
    /\ cres = NoOutcome

Init ==
    /\ now \in 0..MaxNow
    /\ HandlerInit
    /\ PureIdle

\* A model of a handler that issues the GET before it validates.
RejectNoTarget_fetchFirst(r, q) ==
    /\ pc[r] = "idle"
    /\ ~Has(q, "target")
    /\ pc' = [pc EXCEPT ![r] = "done"]
    /\ query' = [query EXCEPT ![r] = q]
    /\ upstream_get' = [upstream_get EXCEPT ![r] = make_url(q, now).url]
    /\ response' = [response EXCEPT ![r] = MissingTargetResponse]
    /\ UNCHANGED <<now, export_start, text, outcome, instruments, pvars>>

\* Lines 123-128: a request without `target`.
RejectNoTarget(r, q) ==
    /\ pc[r] = "idle"
    /\ ~Has(q, "target")
    /\ pc' = [pc EXCEPT ![r] = "done"]
    /\ query' = [query EXCEPT ![r] = q]
    /\ response' = [response EXCEPT ![r] = MissingTargetResponse]
    /\ UNCHANGED <<now, export_start, upstream_get, text, outcome, instruments, pvars>>

\* Lines 130-133: make_url raises, outside the try block of line 135.
TranslateRaises(r, q) ==
    /\ pc[r] = "idle"
    /\ Has(q, "target")
    /\ make_url(q, now).exc # "none"
    /\ pc' = [pc EXCEPT ![r] = "done"]
    /\ query' = [query EXCEPT ![r] = q]
    /\ response' = [response EXCEPT ![r] = UnhandledResponse]
    /\ UNCHANGED <<now, export_start, upstream_get, text, outcome, instruments, pvars>>

\* Lines 130-140: the GET is issued and the task suspends.
StartFetch(r, q) ==
    /\ pc[r] = "idle"
    /\ Has(q, "target")
    /\ make_url(q, now).exc = "none"
    /\ pc' = [pc EXCEPT ![r] = "fetch"]
    /\ query' = [query EXCEPT ![r] = q]
    /\ export_start' = [export_start EXCEPT ![r] = now]
    /\ upstream_get' = [upstream_get EXCEPT ![r] = make_url(q, now).url]
    /\ UNCHANGED <<now, text, outcome, response, instruments, pvars>>

\* Line 140: the upstream cannot be reached.
FetchFails(r) ==
    /\ pc[r] = "fetch"
    /\ pc' = [pc EXCEPT ![r] = "exit"]
    /\ outcome' = [outcome EXCEPT ![r] = ClientErrorOutcome]
    /\ UNCHANGED <<now, query, export_start, upstream_get, text, response,
                   instruments, pvars>>

\* Lines 141-155: the body arrives and is converted.
ReceiveBody(r, b) ==
    /\ pc[r] = "fetch"
    /\ pc' = [pc EXCEPT ![r] = "exit"]
    /\ text' = [text EXCEPT ![r] = b]
    /\ outcome' = [outcome EXCEPT ![r] = Convert(b)]
    /\ UNCHANGED <<now, query, export_start, upstream_get, response,
                   instruments, pvars>>

\* Lines 157-163: the except clause.
FailExport(r) ==
    /\ pc[r] = "exit"
    /\ Caught(outcome[r].exc)
    /\ EXPORT_FAILS' = Inc(EXPORT_FAILS, query[r]["target"], 1)
    /\ response' = [response EXCEPT ![r] = FailureResponse(outcome[r])]
    /\ pc' = [pc EXCEPT ![r] = "done"]
    /\ export_start' = [export_start EXCEPT ![r] = 0]
    /\ outcome' = [outcome EXCEPT ![r] = NoOutcome]
    /\ UNCHANGED <<now, query, upstream_get, text, DURATION_METRIC, EXPORT_COUNT,
                   EXPORT_LINES, pvars>>

\* Line 157: an exception the except clause does not name leaves the handler.
Propagate(r) ==
    /\ pc[r] = "exit"
    /\ outcome[r].exc # "none"
    /\ ~Caught(outcome[r].exc)
    /\ response' = [response EXCEPT ![r] = UnhandledResponse]
    /\ pc' = [pc EXCEPT ![r] = "done"]
    /\ export_start' = [export_start EXCEPT ![r] = 0]
    /\ outcome' = [outcome EXCEPT ![r] = NoOutcome]
    /\ UNCHANGED <<now, query, upstream_get, text, instruments, pvars>>

\* Lines 165-170.
CompleteExport(r) ==
    /\ pc[r] = "exit"
    /\ outcome[r].exc = "none"
    /\ DURATION_METRIC' = SetGauge(DURATION_METRIC, query[r]["target"],
                                   now - export_start[r])
    /\ EXPORT_COUNT' = Inc(EXPORT_COUNT, query[r]["target"], 1)
    /\ EXPORT_LINES' = Inc(EXPORT_LINES, query[r]["target"], outcome[r].nlines)
    /\ response' = [response EXCEPT ![r] = SuccessResponse(outcome[r])]
    /\ pc' = [pc EXCEPT ![r] = "done"]
    /\ export_start' = [export_start EXCEPT ![r] = 0]
    /\ outcome' = [outcome EXCEPT ![r] = NoOutcome]
    /\ UNCHANGED <<now, query, upstream_get, text, EXPORT_FAILS, pvars>>

\* time() reads the system's wall clock: it advances ...
Tick ==
    /\ now < MaxNow
    /\ now' = now + 1
    /\ UNCHANGED <<hvars, instruments, pvars>>

\* ... and is set back when the system's time is adjusted.
ClockSetBack ==
    /\ \E t \in 0..(now - 1) : now' = t
    /\ UNCHANGED <<hvars, instruments, pvars>>

Next ==
    \/ \E r \in Reqs, q \in HandlerQueries : RejectNoTarget(r, q)
    \/ \E r \in Reqs, q \in HandlerQueries : TranslateRaises(r, q)
    \/ \E r \in Reqs, q \in HandlerQueries : StartFetch(r, q)
    \/ \E r \in Reqs : FetchFails(r)
    \/ \E r \in Reqs, b \in HandlerBodies : ReceiveBody(r, b)
    \/ \E r \in Reqs : FailExport(r)
    \/ \E r \in Reqs : Propagate(r)
    \/ \E r \in Reqs : CompleteExport(r)
    \/ Tick
    \/ ClockSetBack

Spec == Init /\ [][Next]_vars

(***************************************************************************)
(* The query translator alone, over every query mapping.                   *)
(***************************************************************************)
InitUrl ==
    /\ now \in 0..MaxNow
    /\ HandlerInit
    /\ uquery \in Queries
    /\ ures = NoUrl
    /\ ctext = <<>>
    /\ cres = NoOutcome

Translate ==
    /\ ures = NoUrl
    /\ ures' = make_url(uquery, now)
    /\ UNCHANGED <<now, hvars, instruments, uquery, ctext, cres>>

NextUrl == Translate

SpecUrl == InitUrl /\ [][NextUrl]_vars

(***************************************************************************)
(* The record conversion alone, over every body of at most MaxTokens       *)
(* tokens.                                                                 *)
(***************************************************************************)
InitConv ==
    /\ now = 0
    /\ HandlerInit
    /\ uquery = NoQuery
    /\ ures = NoUrl
    /\ ctext \in Texts
    /\ cres = NoOutcome

ConvertBody ==
    /\ cres = NoOutcome
    /\ cres' = Convert(ctext)
    /\ UNCHANGED <<now, hvars, instruments, uquery, ures, ctext>>

NextConv == ConvertBody

SpecConv == InitConv /\ [][NextConv]_vars

(***************************************************************************)
(* Vocabulary of the properties.                                           *)
(***************************************************************************)
HasTarget(r) == Has(query[r], "target")
TargetOf(r) == query[r]["target"]

\* Request r finishes in this step, after its fetch ended.
Finishes(r) == pc[r] = "exit" /\ pc'[r] = "done"

\* s contains sub.
Contains(s, sub) ==
    \E i \in 1..(Len(s) - Len(sub) + 1) : SubSeq(s, i, i + Len(sub) - 1) = sub

\* Number of line feeds of s.
NewlineCount(s) == Cardinality({i \in 1..Len(s) : SubSeq(s, i, i) = "\n"})

\* The lines of a body, as a set of positions, and what each holds.
LineSet(b) == {splitlines(b)[i] : i \in 1..Len(splitlines(b))}
InvalidJson(line) == Len(line) # 1 \/ line[1].t # "obj"
LacksField(line) == ~InvalidJson(line) /\ line[1] \in DeficientRecords
LacksName(line) == ~InvalidJson(line) /\ line[1] = R_noname
HasInvalidJsonLine(b) == \E line \in LineSet(b) : InvalidJson(line)
HasRecordLackingField(b) == \E line \in LineSet(b) : LacksField(line)

\* The exposition lines of the well-formed records of a body.
RenderedLines(b) ==
    UNION {{RenderSample(PopName(line[1].metric), AfterPop(line[1].metric),
                         line[1].values[i], line[1].timestamps[i]) :
              i \in 1..ZipLen(line[1].values, line[1].timestamps)} :
             line \in {l \in LineSet(b) : ~InvalidJson(l) /\ l[1] \in WellFormedRecords}}

(***************************************************************************)
(* C1.                                                                     *)
(***************************************************************************)
\* C1: a request whose query has no `target` ends, in the step that receives
\* it, with a 400 response, no upstream GET issued then or later, and every
\* per-target instrument as it was before the request.
C1_NoTargetRejected ==
    [][\A r \in Reqs :
         /\ (pc[r] = "idle" /\ pc'[r] # "idle" /\ ~Has(query'[r], "target"))
              => /\ pc'[r] = "done"
                 /\ response'[r].status = 400
                 /\ upstream_get'[r] = None
                 /\ instruments' = instruments
         /\ (pc[r] = "done" /\ ~HasTarget(r))
              => /\ upstream_get'[r] = None
                 /\ response'[r] = response[r]]_vars

\* A request without target was rejected while another one exported.
C1_Witness ==
    \E r \in Reqs, r2 \in Reqs :
        /\ pc[r] = "done" /\ ~HasTarget(r)
        /\ response[r] = MissingTargetResponse
        /\ upstream_get[r] = None
        /\ pc[r2] = "done" /\ response[r2].status = 200

(***************************************************************************)
(* C2.                                                                     *)
(***************************************************************************)
\* The counters' part of C2: what a successful export of N lines does to the
\* instruments, the sign of the duration left aside.
SuccessCounts(r) ==
    LET t == TargetOf(r)
        N == Len(splitlines(text[r]))
    IN  /\ response'[r].status = 200
        /\ EXPORT_COUNT' = [EXPORT_COUNT EXCEPT ![t] = @ + 1]
        /\ EXPORT_LINES' = [EXPORT_LINES EXCEPT ![t] = @ + N]
        /\ EXPORT_FAILS' = EXPORT_FAILS
        /\ DURATION_METRIC'[t].set
        /\ \A u \in Targets \ {t} : DURATION_METRIC'[u] = DURATION_METRIC[u]

\* C2: a request whose body of N lines converts successfully ends with a 200
\* response, the export counter of its target one higher, the sample counter
\* N higher, the failure counter unchanged, the other targets' instruments
\* unchanged, and the duration gauge of its target set to a value >= 0.
C2_SuccessCounts ==
    [][\A r \in Reqs :
         (Finishes(r) /\ outcome[r].exc = "none")
           => /\ SuccessCounts(r)
              /\ DURATION_METRIC'[TargetOf(r)].v >= 0]_vars

\* C2 without the sign of the duration: the gauge is set to the difference
\* of the two readings of time().
C2_CountsOnly ==
    [][\A r \in Reqs :
         (Finishes(r) /\ outcome[r].exc = "none")
           => /\ SuccessCounts(r)
              /\ DURATION_METRIC'[TargetOf(r)].v = now - export_start[r]]_vars

(***************************************************************************)
(* C3.                                                                     *)
(***************************************************************************)
\* What a failed export does to the instruments and the response.
FailureCounts(r) ==
    LET t == TargetOf(r)
    IN  /\ response'[r].status = 400
        /\ EXPORT_FAILS' = [EXPORT_FAILS EXCEPT ![t] = @ + 1]
        /\ EXPORT_COUNT' = EXPORT_COUNT
        /\ EXPORT_LINES' = EXPORT_LINES
        /\ DURATION_METRIC' = DURATION_METRIC

\* C3: a request whose fetch fails, or whose body has a line that is not
\* valid JSON, ends with a 400 response carrying the error's text, the
\* failure counter of its target one higher, and the export counter, the
\* sample counter and the duration gauge unchanged.
C3_FailureCounts ==
    [][\A r \in Reqs :
         (Finishes(r) /\ (outcome[r].exc = "ClientError" \/ HasInvalidJsonLine(text[r])))
           => /\ FailureCounts(r)
              /\ response'[r].body \in
                   {ClientErrorOutcome.msg} \cup
                   {loads(line).msg : line \in {l \in LineSet(text[r]) : InvalidJson(l)}}]_vars

\* C3 for the requests the except clause of line 157 gets to see.
C3_CaughtOnly ==
    [][\A r \in Reqs :
         (Finishes(r) /\ outcome[r].exc \in {"ClientError", "JSONDecodeError"})
           => FailureCounts(r) /\ response'[r].body = outcome[r].msg]_vars

(***************************************************************************)
(* C4.                                                                     *)
(***************************************************************************)
\* C4: a request whose body holds a record that is valid JSON but lacks
\* `metric`, `values`, `timestamps` or `__name__` ends like a transport
\* error, with a 400 response and the failure counter of its target one
\* higher; so every request that reached the upstream ends by incrementing
\* exactly one of the export counter and the failure counter of its target.
C4_MissingFieldCounts ==
    [][\A r \in Reqs :
         Finishes(r) =>
           LET t == TargetOf(r)
           IN  /\ (HasRecordLackingField(text[r]) /\ ~HasInvalidJsonLine(text[r]))
                    => /\ response'[r].status = 400
                       /\ EXPORT_FAILS'[t] = EXPORT_FAILS[t] + 1
               /\ \/ /\ EXPORT_COUNT'[t] = EXPORT_COUNT[t] + 1
                     /\ EXPORT_FAILS'[t] = EXPORT_FAILS[t]
                  \/ /\ EXPORT_COUNT'[t] = EXPORT_COUNT[t]
                     /\ EXPORT_FAILS'[t] = EXPORT_FAILS[t] + 1]_vars

(***************************************************************************)
(* C5.                                                                     *)
(***************************************************************************)
\* The url of the claim: the segments in the order start, end, match[].
StartSegment(q, t, nonempty) ==
    IF "last" \in DOMAIN q
    THEN "start=" \o ToString(t - FloatTable[q["last"]]) \o "&"
    ELSE IF "start" \in DOMAIN q /\ (nonempty => q["start"] # "")
         THEN "start=" \o q["start"] \o "&"
         ELSE ""

EndSegment(q, nonempty) ==
    IF "end" \in DOMAIN q /\ (nonempty => q["end"] # "")
    THEN "end=" \o q["end"] \o "&"
    ELSE ""

MatchSegment(q) ==
    "match[]=" \o (IF "match[]" \in DOMAIN q THEN q["match[]"] ELSE "{__name__!=''}")

ClaimedUrl(q, t, nonempty) ==
    "/api/v1/export?" \o StartSegment(q, t, nonempty) \o EndSegment(q, nonempty)
    \o MatchSegment(q)

\* C5 as claimed: for every query mapping make_url returns the url made of
\* start (now - last, else the caller's start if present), end (if present)
\* and match[] (the caller's, else the default), in this order.
C5_Original ==
    ures # NoUrl => ures.exc = "none" /\ ures.url = ClaimedUrl(uquery, now, FALSE)

\* C5 as amended: make_url raises ValueError when `last` is present and not
\* a number; otherwise it returns the url of the claim, where a start or an
\* end that is present but empty is left out like an absent one.
C5_Amended ==
    ures # NoUrl =>
        IF "last" \in DOMAIN uquery /\ uquery["last"] \notin DOMAIN FloatTable
        THEN ures.exc = "ValueError"
        ELSE ures.exc = "none" /\ ures.url = ClaimedUrl(uquery, now, TRUE)

\* A url made from a query with last, start, an empty end and a match[].
C5_Witness ==
    /\ ures.exc = "none"
    /\ Has(uquery, "last") /\ Has(uquery, "start") /\ Has(uquery, "match[]")
    /\ Has(uquery, "end") /\ uquery["end"] = ""
    /\ uquery["start"] # ""

(***************************************************************************)
(* C6.                                                                     *)
(***************************************************************************)
\* C6: make_url raises on no query mapping, so every request with a target
\* gets past the Translate step and issues its GET.
C6_TranslateTotal ==
    \A r \in Reqs : (pc[r] # "idle" /\ HasTarget(r)) => upstream_get[r] # None

(***************************************************************************)
(* C7.                                                                     *)
(***************************************************************************)
\* A body of well-formed records, one per line; the last line may or may
\* not end with a line break.
RecordsPerLine(b) ==
    \A i \in 1..Len(b) :
        IF i % 2 = 1 THEN b[i] \in WellFormedRecords ELSE b[i] = NL

RecordsOf(b) == SelectSeq(b, LAMBDA tok : tok.t = "obj")

\* The name and the labels of a record: the entry __name__, and the others.
NameOf(rec) ==
    CHOOSE v \in {"up", "cpu"} : \E i \in 1..Len(rec.metric) : rec.metric[i] = <<"__name__", v>>

LabelPositions(rec) == {i \in 1..Len(rec.metric) : rec.metric[i][1] # "__name__"}

RECURSIVE LabelsUpTo(_, _)
\* The labels at the positions up to n, comma-separated.
LabelsUpTo(rec, n) ==
    IF n = 0 THEN ""
    ELSE IF n \notin LabelPositions(rec) THEN LabelsUpTo(rec, n - 1)
    ELSE LabelsUpTo(rec, n - 1)
         \o (IF \E j \in LabelPositions(rec) : j < n THEN "," ELSE "")
         \o rec.metric[n][1] \o "=\"" \o rec.metric[n][2] \o "\""

\* The line of position i of a record.
ExpectedLine(rec, i) ==
    NameOf(rec) \o "{" \o LabelsUpTo(rec, Len(rec.metric)) \o "} "
    \o (IF rec.values[i] = Null THEN "0" ELSE ToString(rec.values[i].n))
    \o " " \o ToString(rec.timestamps[i]) \o "\n"

\* Number of positions below both lengths.
Positions(rec) ==
    Cardinality({i \in 1..Len(rec.values) : i <= Len(rec.timestamps)})

RECURSIVE ExpectedRecord(_, _)
\* The lines of the positions up to m of a record.
ExpectedRecord(rec, m) ==
    IF m = 0 THEN "" ELSE ExpectedRecord(rec, m - 1) \o ExpectedLine(rec, m)

RECURSIVE ExpectedBody(_, _)
\* The lines of the records up to the n-th.
ExpectedBody(recs, n) ==
    IF n = 0 THEN ""
    ELSE ExpectedBody(recs, n - 1) \o ExpectedRecord(recs[n], Positions(recs[n]))

RECURSIVE TotalPositions(_, _)
TotalPositions(recs, n) ==
    IF n = 0 THEN 0 ELSE TotalPositions(recs, n - 1) + Positions(recs[n])

\* C7: the body rendered from a well-formed upstream body is, in input
\* order, one newline-terminated line `name{k="v",...} value timestamp` for
\* each record and each position below both lengths, with __name__ never a
\* label, 0 for a null value, the timestamp unchanged, and nothing for the
\* positions beyond the shorter array.
C7_Rendered ==
    (cres # NoOutcome /\ RecordsPerLine(ctext)) =>
        LET recs == RecordsOf(ctext)
        IN  /\ cres.exc = "none"
            /\ cres.body = ExpectedBody(recs, Len(recs))
            /\ NewlineCount(cres.body) = TotalPositions(recs, Len(recs))
            /\ ~Contains(cres.body, "__name__")

\* The record of the specification's example, then one with __name__ between
\* two labels and more timestamps than values.
C7_Witness ==
    /\ ctext = <<R_up, NL, R_mid>>
    /\ cres.exc = "none"
    /\ cres.body = "up{job=\"x\"} 1 100\nup{job=\"x\"} 0 200\nup{job=\"x\",env=\"p\"} 2 100\n"

(***************************************************************************)
(* C8.                                                                     *)
(***************************************************************************)
\* C8: a request whose body has a line that is not valid JSON, or a record
\* without __name__, fails as a whole, wherever that line is: its response
\* is not a success, the success counters do not move, and the response
\* body holds none of the lines rendered from the records of the body.
C8_NoPartialResult ==
    [][\A r \in Reqs :
         (Finishes(r) /\ \E line \in LineSet(text[r]) : InvalidJson(line) \/ LacksName(line))
           => /\ response'[r].status # 200
              /\ EXPORT_COUNT' = EXPORT_COUNT
              /\ EXPORT_LINES' = EXPORT_LINES
              /\ \A l \in RenderedLines(text[r]) : ~Contains(response'[r].body, l)]_vars

\* A request failed on the line after a well-formed record.
C8_Witness ==
    \E r \in Reqs :
        /\ pc[r] = "done"
        /\ text[r] = B_junk
        /\ response[r].status = 400
        /\ RenderedLines(text[r]) # {}

(***************************************************************************)
(* C9.                                                                     *)
(***************************************************************************)
RECURSIVE StripTrailing(_)
\* A body without its trailing line breaks.
StripTrailing(b) ==
    IF b # <<>> /\ b[Len(b)] = NL THEN StripTrailing(SubSeq(b, 1, Len(b) - 1)) ELSE b

\* Well-formed records, a line break between each two.
RecordsOnly(b) == RecordsPerLine(b) /\ Len(b) % 2 = (IF b = <<>> THEN 0 ELSE 1)

\* C9 as claimed: a body of well-formed records followed only by line breaks
\* (one, or several: blank lines) converts to what the body without them
\* converts to, and the empty body converts to the empty body.
C9_Original ==
    (/\ cres # NoOutcome
     /\ RecordsOnly(StripTrailing(ctext))
     /\ (StripTrailing(ctext) # <<>> \/ ctext = <<>>)) =>
        /\ cres.exc = "none"
        /\ cres.body = Convert(StripTrailing(ctext)).body

\* C9 as amended: one final line break after the last record is tolerated,
\* and the empty body converts to the empty body; a blank line after the last
\* record, or a body of line breaks only, fails with a JSON decode error.
C9_Amended ==
    (cres # NoOutcome /\ RecordsOnly(StripTrailing(ctext))) =>
        LET base == StripTrailing(ctext)
            k == Len(ctext) - Len(base)
        IN  IF k = 0 \/ (k = 1 /\ base # <<>>)
            THEN /\ cres.exc = "none"
                 /\ cres.body = Convert(base).body
                 /\ cres.nlines = Convert(base).nlines
                 /\ (ctext = <<>> => cres.body = "")
            ELSE cres.exc = "JSONDecodeError"

\* A record and a final line break, converted.
C9_Witness ==
    /\ ctext = <<R_up, NL>>
    /\ cres.exc = "none"
    /\ cres.body = "up{job=\"x\"} 1 100\nup{job=\"x\"} 0 200\n"

(***************************************************************************)
(* C10.                                                                    *)
(***************************************************************************)
Succeeded(t) == {r \in Reqs : pc[r] = "done" /\ HasTarget(r) /\ TargetOf(r) = t
                              /\ response[r].status = 200}
Failed(t) == {r \in Reqs : pc[r] = "done" /\ HasTarget(r) /\ TargetOf(r) = t
                           /\ response[r].status = 400}

RECURSIVE LinesOfAll(_)
\* The lines of the bodies of a set of requests.
LinesOfAll(S) ==
    IF S = {} THEN 0
    ELSE LET r == CHOOSE x \in S : TRUE
         IN  Len(splitlines(text[r])) + LinesOfAll(S \ {r})

\* Every counter is its initial 0 plus the increments of the finished requests.
Accounted ==
    \A t \in Targets :
        /\ EXPORT_COUNT[t] = Cardinality(Succeeded(t))
        /\ EXPORT_FAILS[t] = Cardinality(Failed(t))
        /\ EXPORT_LINES[t] = LinesOfAll(Succeeded(t))

\* C10: whatever the interleaving of the requests, the instruments change
\* only in a step in which a request finishes, its fetch over (the body
\* received and converted, or the fetch failed) and never while it is
\* suspended, and only those of that request's target; no counter
\* decreases; and no increment is lost: each counter is the sum of the
\* increments of the requests finished so far.
C10_NoLostIncrement ==
    [][/\ instruments' # instruments =>
            \E r \in Reqs :
                /\ Finishes(r)
                /\ \A u \in Targets \ {TargetOf(r)} :
                       /\ EXPORT_COUNT'[u] = EXPORT_COUNT[u]
                       /\ EXPORT_FAILS'[u] = EXPORT_FAILS[u]
                       /\ EXPORT_LINES'[u] = EXPORT_LINES[u]
                       /\ DURATION_METRIC'[u] = DURATION_METRIC[u]
       /\ \A t \in Targets :
              /\ EXPORT_COUNT'[t] >= EXPORT_COUNT[t]
              /\ EXPORT_FAILS'[t] >= EXPORT_FAILS[t]
              /\ EXPORT_LINES'[t] >= EXPORT_LINES[t]
       /\ Accounted']_vars

\* Every request has finished, two of them with a success on one target.
C10_Witness ==
    /\ \A r \in Reqs : pc[r] = "done"
    /\ \E t \in Targets :
           /\ Cardinality(Succeeded(t)) >= 2
           /\ EXPORT_COUNT[t] = Cardinality(Succeeded(t))
           /\ EXPORT_LINES[t] > 0

=============================================================================
